---- MODULE Spec2Model ----
(***************************************************************************)
(* Model of src/app.py: the stock analysis dashboard.                      *)
(*                                                                         *)
(* The indicator helpers (calculate_sma, calculate_rsi) and the pandas /   *)
(* numpy primitives they are written with (rolling().mean(), diff(),       *)
(* where(), shift(), dropna()) are operators over sequences of float       *)
(* values.  main() is a state machine, one action per section of the       *)
(* function.                                                               *)
(*                                                                         *)
(* Floats are exact rationals extended with NaN, +inf, -inf and -0.0, so   *)
(* that IEEE division by zero and NaN propagation behave as numpy's do;    *)
(* rounding error is not modelled.  Sequences are 1-based: row i of the    *)
(* source (0-based) is position i+1 here.                                  *)
(***************************************************************************)
EXTENDS Integers, Sequences, FiniteSets, TLC

(***************************************************************************)
(* Float values.                                                           *)
(***************************************************************************)
Abs(x) == IF x < 0 THEN -x ELSE x

RECURSIVE GCD(_, _)
GCD(a, b) == IF b = 0 THEN a ELSE GCD(b, a % b)

NaN == [k |-> "nan", n |-> 0, d |-> 1]

Inf(s) == [k |-> "inf", n |-> s, d |-> 1]

NegZero == [k |-> "-0", n |-> 0, d |-> 1]

\* The rational n/d in lowest terms with a positive denominator (d # 0).
Num(n, d) ==
    LET g == GCD(Abs(n), Abs(d))
        s == IF d < 0 THEN -1 ELSE 1
    IN  [k |-> "num", n |-> (s * n) \div g, d |-> (s * d) \div g]

Zero == Num(0, 1)

IsNaN(x) == x.k = "nan"

IsInf(x) == x.k = "inf"

IsZero(x) == x.k = "-0" \/ (x.k = "num" /\ x.n = 0)

\* Sign bit of a non-NaN value: -1 for negatives, -0.0 and -inf, else 1.
Sgn(x) == IF x.k = "-0" \/ x.n < 0 THEN -1 ELSE 1

SignedZero(s) == IF s < 0 THEN NegZero ELSE Zero

FNeg(x) ==
    CASE IsNaN(x)  -> NaN
      [] IsInf(x)  -> Inf(-x.n)
      [] IsZero(x) -> SignedZero(-Sgn(x))
      [] OTHER     -> Num(-x.n, x.d)

FAdd(x, y) ==
    CASE IsNaN(x) \/ IsNaN(y) -> NaN
      [] IsInf(x) /\ IsInf(y) -> IF x.n = y.n THEN x ELSE NaN
      [] IsInf(x)             -> x
      [] IsInf(y)             -> y
      [] IsZero(x) /\ IsZero(y) ->
            IF Sgn(x) < 0 /\ Sgn(y) < 0 THEN NegZero ELSE Zero
      [] OTHER                -> Num(x.n * y.d + y.n * x.d, x.d * y.d)

FSub(x, y) == FAdd(x, FNeg(y))

FDiv(x, y) ==
    CASE IsNaN(x) \/ IsNaN(y) -> NaN
      [] IsInf(x) /\ IsInf(y) -> NaN
      [] IsInf(x)             -> Inf(Sgn(x) * Sgn(y))
      [] IsInf(y)             -> SignedZero(Sgn(x) * Sgn(y))
      [] IsZero(y)            -> IF IsZero(x) THEN NaN
                                 ELSE Inf(Sgn(x) * Sgn(y))
      [] IsZero(x)            -> SignedZero(Sgn(x) * Sgn(y))
      [] OTHER                -> Num(x.n * y.d, x.d * y.n)

\* x > y as numpy compares floats: False whenever either side is NaN.
FGt(x, y) ==
    CASE IsNaN(x) \/ IsNaN(y) -> FALSE
      [] IsInf(x) /\ IsInf(y) -> x.n > y.n
      [] IsInf(x)             -> x.n > 0
      [] IsInf(y)             -> y.n < 0
      [] OTHER                -> x.n * y.d > y.n * x.d

FLt(x, y) == FGt(y, x)

\* Numerical equality (0.0 == -0.0, NaN equal to nothing).
FEq(x, y) == ~IsNaN(x) /\ ~IsNaN(y) /\ ~FGt(x, y) /\ ~FGt(y, x)

(***************************************************************************)
(* pandas / numpy primitives over a Series (a sequence of floats).         *)
(***************************************************************************)
\* A series as a tuple whose elements are computed once.
Series(f) == f \o <<>>

\* Running totals over s[1..i] as pandas' rolling aggregation keeps them:
\* the sum of the non-NaN observations and their number.
RECURSIVE Totals(_, _)
Totals(s, i) ==
    IF i = 0 THEN <<[sum |-> Zero, nobs |-> 0]>>
    ELSE LET before == Totals(s, i - 1)
             last   == before[i]
         IN  Append(before,
                    IF IsNaN(s[i]) THEN last
                    ELSE [sum |-> FAdd(last.sum, s[i]), nobs |-> last.nobs + 1])

\* s.rolling(window=window).mean(): the mean of the trailing window,
\* obtained by adding the entering and removing the leaving observation;
\* min_periods defaults to the window, so a position with fewer than
\* window non-NaN observations in its trailing window is NaN.
rolling_mean(s, window) ==
    LET t == Totals(s, Len(s))
    IN  Series([i \in 1..Len(s) |->
            LET lo   == IF i < window THEN 0 ELSE i - window
                nobs == t[i + 1].nobs - t[lo + 1].nobs
            IN  IF nobs < window THEN NaN
                ELSE FDiv(FSub(t[i + 1].sum, t[lo + 1].sum), Num(nobs, 1))])

\* s.diff(1)
diff(s) ==
    Series([i \in 1..Len(s) |-> IF i = 1 THEN NaN ELSE FSub(s[i], s[i - 1])])

\* s.shift(-1)
shift_back(s) ==
    Series([i \in 1..Len(s) |-> IF i < Len(s) THEN s[i + 1] ELSE NaN])

\* s.where(cond, other): s where cond holds, other elsewhere.
where(s, cond, other) ==
    Series([i \in 1..Len(s) |-> IF cond[i] THEN s[i] ELSE other])

\* np.where(cond, 1, 0)
np_where10(cond) ==
    Series([i \in 1..Len(cond) |-> IF cond[i] THEN Num(1, 1) ELSE Zero])

(***************************************************************************)
(* Helper functions for technical indicators.                              *)
(***************************************************************************)
\* Variant: the window one row too long.
calculate_sma_long_window(data, period) == rolling_mean(data.Close, period + 1)

calculate_sma(data, period) == rolling_mean(data.Close, period)

\* delta.where(delta > 0, 0).rolling(window=period).mean()
rolling_gain(delta, period) ==
    LET up == Series([i \in 1..Len(delta) |-> FGt(delta[i], Zero)])
    IN  rolling_mean(where(delta, up, Zero), period)

\* -delta.where(delta < 0, 0).rolling(window=period).mean()
rolling_loss(delta, period) ==
    LET down == Series([i \in 1..Len(delta) |-> FLt(delta[i], Zero)])
        mean == rolling_mean(where(delta, down, Zero), period)
    IN  Series([i \in 1..Len(mean) |-> FNeg(mean[i])])

\* 100 - (100 / (1 + rs))
rsi_of(rs) ==
    Series([i \in 1..Len(rs) |->
        FSub(Num(100, 1), FDiv(Num(100, 1), FAdd(Num(1, 1), rs[i])))])

\* Variant: the ratio taken as loss / gain.
calculate_rsi_inverted(data, period) ==
    LET delta == diff(data.Close)
        gain  == rolling_gain(delta, period)
        loss  == rolling_loss(delta, period)
    IN  rsi_of(Series([i \in 1..Len(gain) |-> FDiv(loss[i], gain[i])]))

\* Variant: a window without any change given the ratio 0.
calculate_rsi_flat_zero(data, period) ==
    LET delta == diff(data.Close)
        gain  == rolling_gain(delta, period)
        loss  == rolling_loss(delta, period)
    IN  rsi_of(Series([i \in 1..Len(gain) |->
            IF IsZero(gain[i]) /\ IsZero(loss[i]) THEN Zero
            ELSE FDiv(gain[i], loss[i])]))

calculate_rsi(data, period) ==
    LET delta == diff(data.Close)
        gain  == rolling_gain(delta, period)
        loss  == rolling_loss(delta, period)
        rs    == Series([i \in 1..Len(gain) |-> FDiv(gain[i], loss[i])])
    IN  rsi_of(rs)

\* MACD values are not tracked: ewm(adjust=False).mean() is seeded by the
\* first close, so on closes without NaN both EMAs, and their difference,
\* are finite at every row.  Tracked stands for such a finite value.
Tracked == [k |-> "val", n |-> 0, d |-> 1]

calculate_macd(data) ==
    Series([i \in 1..Len(data.Close) |->
               IF IsNaN(data.Close[i]) THEN NaN ELSE Tracked])

(***************************************************************************)
(* Program constants.                                                      *)
(***************************************************************************)
SHORT_MIN == 10

SHORT_MAX == 100

LONG_MIN == 50

LONG_MAX == 200

RSI_PERIOD == 20

PE_BUY == 15

PE_SELL == 25

MIN_ROWS == 5

TEST_SIZE_PCT == 20

(***************************************************************************)
(* Collaborators: price history and company information.                   *)
(***************************************************************************)
\* stock.history(...): a frame indexed by trading date (here the row
\* number) whose Close column holds the closes.
history(closes) ==
    [index |-> Series([i \in 1..Len(closes) |-> i]),
     Close |-> Series([i \in 1..Len(closes) |-> Num(closes[i], 1)])]

\* The "N/A" string get_company_info substitutes for a missing field.
NA == [k |-> "N/A", n |-> 0, d |-> 1]

\* stock.info.get("trailingPE", "N/A") for an info dict that holds the
\* field or lacks it.
get_company_info(info) ==
    [PE_Ratio |-> IF "trailingPE" \in DOMAIN info THEN info.trailingPE ELSE NA]

(***************************************************************************)
(* Sections of main().                                                     *)
(***************************************************************************)
Buy == [recommendation |-> "Buy", description |-> "Undervalued", raised |-> FALSE]

Sell == [recommendation |-> "Sell", description |-> "Overvalued", raised |-> FALSE]

Hold == [recommendation |-> "Hold", description |-> "Fairly Valued", raised |-> FALSE]

\* Comparing the "N/A" string with a number raises TypeError.
TypeError == [recommendation |-> "", description |-> "", raised |-> TRUE]

\* Variant: the comparisons made without testing for "N/A" first.
recommend_unguarded(pe) ==
    IF pe = NA THEN TypeError
    ELSE IF FLt(pe, Num(PE_BUY, 1)) THEN Buy
    ELSE IF FGt(pe, Num(PE_SELL, 1)) THEN Sell
    ELSE Hold

\* Recommendations based on P/E ratio; 'and' short-circuits, so the
\* comparison is only evaluated when the ratio is not "N/A".
recommend(pe) ==
    IF pe # NA /\ FLt(pe, Num(PE_BUY, 1)) THEN Buy
    ELSE IF pe # NA /\ FGt(pe, Num(PE_SELL, 1)) THEN Sell
    ELSE Hold

\* Variant: the flag left undefined where either average is undefined.
crossover_undefined_warmup(sma_short, sma_long) ==
    Series([i \in 1..Len(sma_short) |->
        IF IsNaN(sma_short[i]) \/ IsNaN(sma_long[i]) THEN NaN
        ELSE IF FGt(sma_short[i], sma_long[i]) THEN Num(1, 1) ELSE Zero])

\* np.where(SMA_Short > SMA_Long, 1, 0)
crossover(sma_short, sma_long) ==
    np_where10(Series([i \in 1..Len(sma_short) |->
                          FGt(sma_short[i], sma_long[i])]))

\* Variant: the difference taken the other way round.
crossover_signal_reversed(flag) ==
    Series([i \in 1..Len(flag) |->
        IF i = 1 THEN NaN ELSE FSub(flag[i - 1], flag[i])])

\* stock_data['Crossover'].diff()
crossover_signal(flag) == diff(flag)

\* The columns the technical analysis section adds to the frame.
technical_columns(df, short_days, long_days) ==
    LET sma_short == calculate_sma(df, short_days)
        sma_long  == calculate_sma(df, long_days)
        flag      == crossover(sma_short, sma_long)
    IN  [SMA_Short |-> sma_short,
         SMA_Long |-> sma_long,
         RSI |-> calculate_rsi(df, RSI_PERIOD),
         MACD |-> calculate_macd(df),
         Crossover |-> flag,
         Crossover_Signal |-> crossover_signal(flag)] @@ df

\* np.where(Close.shift(-1) > Close, 1, 0)
target_column(df) ==
    LET next == shift_back(df.Close)
    IN  np_where10(Series([i \in 1..Len(df.Close) |->
                              FGt(next[i], df.Close[i])]))

feature_columns == {"SMA_Short", "SMA_Long", "RSI", "MACD"}

\* Variant: RSI left out of the columns inspected.
dropna_ignoring_rsi(df, subset) ==
    LET Complete(i) == \A c \in subset \ {"RSI"} : ~IsNaN(df[c][i])
        keep == SelectSeq([i \in 1..Len(df.index) |-> i], Complete)
    IN  [c \in DOMAIN df |-> Series([r \in 1..Len(keep) |-> df[c][keep[r]]])]

\* df.dropna(subset=subset): the rows with no NaN in the subset columns,
\* in order, every column (and the index) restricted to them.
dropna(df, subset) ==
    LET Complete(i) == \A c \in subset : ~IsNaN(df[c][i])
        keep == SelectSeq([i \in 1..Len(df.index) |-> i], Complete)
    IN  [c \in DOMAIN df |-> Series([r \in 1..Len(keep) |-> df[c][keep[r]]])]

\* df[columns], keeping the index.
select(df, columns) == [c \in columns \cup {"index"} |-> df[c]]

\* Variant: the threshold row count itself counted as too few.
not_enough_inclusive(n) == n <= MIN_ROWS

\* if len(features) < 5
not_enough(n) == n < MIN_ROWS

\* Size of the test partition train_test_split draws for test_size=0.2:
\* ceil(0.2 * n_samples).
n_test(n) == (n * TEST_SIZE_PCT + 99) \div 100

(***************************************************************************)
(* Bounds of the model.                                                    *)
(***************************************************************************)
\* Rows of generated price history before the freely chosen rows.
WarmLen == 52

\* Freely chosen closing rows after the history, and their price range.
MaxTail == 3

MaxPrice == 2

\* P/E ratios are drawn from within PESpan of the two thresholds.
PESpan == 1

\* Inputs of the helper functions called on their own.
FnMaxLen == 4

FnMaxPrice == 3

FnMaxPeriod == 3

Flat(len) == [i \in 1..len |-> 1]

ZigZag(len) == [i \in 1..len |-> 1 + (i % 2)]

Rising(len) == [i \in 1..len |-> i]

Tails == UNION {[1..t -> 1..MaxPrice] : t \in 0..MaxTail}

\* Closing prices load_stock_data may return: nothing or a history of
\* WarmLen rows, followed by up to MaxTail rows.
ClosePrices ==
    {h \o t : h \in {<<>>, Flat(WarmLen), ZigZag(WarmLen), Rising(WarmLen)},
              t \in Tails}

\* Slider positions: the short window at its minimum or just above the
\* long minimum (short > long is allowed), the long window at its minimum.
ShortDays == {d \in SHORT_MIN..SHORT_MAX : d = SHORT_MIN \/ d = LONG_MIN + 1}

LongDays == {d \in LONG_MIN..LONG_MAX : d = LONG_MIN}

PERatios ==
    {Num(p, 1) : p \in ((PE_BUY - PESpan)..PE_BUY)
                       \cup (PE_SELL..(PE_SELL + PESpan))}

\* stock.info of a ticker: with a trailing P/E, or without one.
StockInfos ==
    {[symbol |-> "AAPL", trailingPE |-> pe] : pe \in PERatios}
        \cup {[symbol |-> "AAPL"]}

FnClosePrices == UNION {[1..t -> 1..FnMaxPrice] : t \in 0..FnMaxLen}

(***************************************************************************)
(* State.                                                                  *)
(***************************************************************************)
VARIABLES
    pc,              \* section of main() the render has reached
    short_ma_days,   \* sidebar sliders
    long_ma_days,
    company_info,    \* result of get_company_info
    recommendation,  \* recommendation / description written to the page
    description,
    stock_data,      \* the frame: column name -> column, plus its index
    features,        \* stock_data[feature_columns] after dropna
    target,          \* stock_data['Target'] after dropna
    message,         \* the "Not enough data" text was written
    split,           \* partition returned by train_test_split
    log,             \* computations performed by the render, in order
    cached_history,  \* closes load_stock_data returned (kept by st.cache_data)
    call             \* a helper function called on its own, with its result

vars == <<pc, short_ma_days, long_ma_days, company_info, recommendation,
          description, stock_data, features, target, message, split, log,
          cached_history, call>>

NoFrame == [index |-> <<>>]

NoSplit == [done |-> FALSE, train |-> {}, test |-> {}]

NoCall == [fn |-> "none", closes |-> <<>>, period |-> 0, period2 |-> 0,
           out |-> <<>>]

Init ==
    /\ pc = "start"
    /\ short_ma_days = SHORT_MIN
    /\ long_ma_days = LONG_MIN
    /\ company_info = [PE_Ratio |-> NA]
    /\ recommendation = ""
    /\ description = ""
    /\ stock_data = NoFrame
    /\ features = NoFrame
    /\ target = NoFrame
    /\ message = FALSE
    /\ split = NoSplit
    /\ log = <<>>
    /\ cached_history = <<>>
    /\ call = NoCall

(***************************************************************************)
(* main(): one render.                                                     *)
(***************************************************************************)
\* Sidebar inputs, load_stock_data and get_company_info.
LoadData ==
    /\ pc = "start"
    /\ \E s \in ShortDays, l \in LongDays, closes \in ClosePrices,
          info \in StockInfos :
          /\ short_ma_days' = s
          /\ long_ma_days' = l
          /\ stock_data' = history(closes)
          /\ cached_history' = closes
          /\ company_info' = get_company_info(info)
    /\ pc' = "loaded"
    /\ log' = log \o <<"load_stock_data", "get_company_info">>
    /\ UNCHANGED <<recommendation, description, features, target, message,
                   split, call>>

\* Company information, fundamental analysis and the recommendation.
FundamentalAnalysis ==
    /\ pc = "loaded"
    /\ LET r == recommend(company_info.PE_Ratio)
       IN  /\ recommendation' = r.recommendation
           /\ description' = r.description
           /\ pc' = IF r.raised THEN "error" ELSE "recommended"
    /\ log' = Append(log, "recommendation")
    /\ UNCHANGED <<short_ma_days, long_ma_days, company_info, stock_data,
                   features, target, message, split, cached_history,
                   call>>

\* Technical analysis: indicator columns, crossover and the charts.
TechnicalAnalysis ==
    /\ pc = "recommended"
    /\ stock_data' = technical_columns(stock_data, short_ma_days, long_ma_days)
    /\ pc' = "indicators"
    /\ log' = Append(log, "indicators")
    /\ UNCHANGED <<short_ma_days, long_ma_days, company_info, recommendation,
                   description, features, target, message, split, cached_history,
                   call>>

\* Prediction model: the Target column.
PredictionTarget ==
    /\ pc = "indicators"
    /\ stock_data' = [Target |-> target_column(stock_data)] @@ stock_data
    /\ pc' = "target"
    /\ log' = Append(log, "target")
    /\ UNCHANGED <<short_ma_days, long_ma_days, company_info, recommendation,
                   description, features, target, message, split, cached_history,
                   call>>

\* Drop rows with missing values; take the features and the target.
DropMissing ==
    /\ pc = "target"
    /\ LET df == dropna(stock_data, feature_columns \cup {"Target"})
       IN  /\ stock_data' = df
           /\ features' = select(df, feature_columns)
           /\ target' = select(df, {"Target"})
    /\ pc' = "filtered"
    /\ log' = Append(log, "dropna")
    /\ UNCHANGED <<short_ma_days, long_ma_days, company_info, recommendation,
                   description, message, split, cached_history,
                   call>>

\* len(features) < 5: write the message.  main() ends here.
NotEnoughData ==
    /\ pc = "filtered"
    /\ not_enough(Len(features.index))
    /\ message' = TRUE
    /\ pc' = "done"
    /\ UNCHANGED <<short_ma_days, long_ma_days, company_info, recommendation,
                   description, stock_data, features, target, split, log,
                   cached_history,
                   call>>

\* Otherwise train_test_split: a random test partition of ceil(0.2 n) rows,
\* the rest for training.  main() ends here; train_model is not called.
TrainTestSplit ==
    /\ pc = "filtered"
    /\ ~not_enough(Len(features.index))
    /\ LET rows == {features.index[r] : r \in 1..Len(features.index)}
       IN  \E test \in SUBSET rows :
              /\ Cardinality(test) = n_test(Len(features.index))
              /\ split' = [done |-> TRUE, train |-> rows \ test, test |-> test]
    /\ pc' = "done"
    /\ log' = Append(log, "train_test_split")
    /\ UNCHANGED <<short_ma_days, long_ma_days, company_info, recommendation,
                   description, stock_data, features, target, message, cached_history,
                   call>>

Next ==
    \/ LoadData
    \/ FundamentalAnalysis
    \/ TechnicalAnalysis
    \/ PredictionTarget
    \/ DropMissing
    \/ NotEnoughData
    \/ TrainTestSplit

Spec == Init /\ [][Next]_vars

(***************************************************************************)
(* The helper functions and the technical analysis section called on       *)
(* their own, over every short price series and small window.              *)
(***************************************************************************)
Call_calculate_sma ==
    /\ call = NoCall
    /\ \E closes \in FnClosePrices, period \in 1..FnMaxPeriod :
          call' = [fn |-> "calculate_sma", closes |-> closes,
                   period |-> period, period2 |-> 0,
                   out |-> calculate_sma(history(closes), period)]
    /\ UNCHANGED <<pc, short_ma_days, long_ma_days, company_info,
                   recommendation, description, stock_data, features, target,
                   message, split, log, cached_history>>

Call_calculate_rsi ==
    /\ call = NoCall
    /\ \E closes \in FnClosePrices, period \in 1..FnMaxPeriod :
          call' = [fn |-> "calculate_rsi", closes |-> closes,
                   period |-> period, period2 |-> 0,
                   out |-> calculate_rsi(history(closes), period)]
    /\ UNCHANGED <<pc, short_ma_days, long_ma_days, company_info,
                   recommendation, description, stock_data, features, target,
                   message, split, log, cached_history>>

Call_technical_columns ==
    /\ call = NoCall
    /\ \E closes \in FnClosePrices, short \in 1..FnMaxPeriod,
          long \in 1..FnMaxPeriod :
          call' = [fn |-> "technical_columns", closes |-> closes,
                   period |-> short, period2 |-> long,
                   out |-> technical_columns(history(closes), short, long)]
    /\ UNCHANGED <<pc, short_ma_days, long_ma_days, company_info,
                   recommendation, description, stock_data, features, target,
                   message, split, log, cached_history>>

NextFn ==
    \/ Call_calculate_sma
    \/ Call_calculate_rsi
    \/ Call_technical_columns

SpecFn == Init /\ [][NextFn]_vars

(***************************************************************************)
(* Properties.  Row i of the source is position i + 1 of a column.         *)
(***************************************************************************)
RECURSIVE SumCloses(_, _, _)
SumCloses(closes, lo, hi) ==
    IF lo > hi THEN 0 ELSE SumCloses(closes, lo, hi - 1) + closes[hi]

\* col is the simple moving average of closes over period: NaN before
\* position period, the mean of the trailing period closes from there on.
IsTrailingMean(col, closes, period) ==
    /\ Len(col) = Len(closes)
    /\ \A i \in 1..Len(closes) :
          IF i < period THEN IsNaN(col[i])
          ELSE /\ col[i].k = "num"
               /\ col[i].n * period
                    = col[i].d * SumCloses(closes, i - period + 1, i)

\* The short average exceeds the long one at position i (both defined).
ShortAboveLong(closes, short, long, i) ==
    /\ i >= short
    /\ i >= long
    /\ SumCloses(closes, i - short + 1, i) * long
         > SumCloses(closes, i - long + 1, i) * short

Flag(closes, short, long, i) ==
    IF ShortAboveLong(closes, short, long, i) THEN 1 ELSE 0

\* Day-over-day changes inside the RSI window ending at position i; the
\* change of the first row has no previous row.
WindowChanges(closes, period, i) ==
    {closes[j] - closes[j - 1] : j \in {k \in (i - period + 1)..i : k >= 2}}

InMain(stages) == call = NoCall /\ pc \in stages

Rows(frame) == {frame.index[r] : r \in 1..Len(frame.index)}

\* C1: Minimum data guard.  A finished render with fewer than 5 rows left
\* after row filtering has written the insufficient-data message and has
\* performed neither the train/test split nor a model fit; with 5 or more
\* rows it has performed the split and has not written the message.  Before
\* the guard runs nothing of either has happened.
C1_MinimumDataGuard ==
    /\ InMain({"done"}) =>
          IF Len(features.index) < 5
          THEN /\ message
               /\ ~split.done
               /\ \A e \in 1..Len(log) :
                     log[e] \notin {"train_test_split", "train_model"}
          ELSE /\ split.done
               /\ ~message
    /\ pc # "done" => ~message /\ ~split.done

C1_Witness ==
    /\ InMain({"done"})
    /\ Len(features.index) = 5
    /\ split.done
    /\ ~message

\* C2: Label derivation.  Every row with a next row is labelled 1 if the
\* next close is strictly greater than its own and 0 otherwise; the final
\* row's label is undefined and the final row is not in the training set.
C2_LabelDerivation ==
    /\ InMain({"target"}) =>
          LET n == Len(cached_history)
          IN  /\ \A i \in 1..(n - 1) :
                    stock_data.Target[i]
                      = IF cached_history[i + 1] > cached_history[i]
                        THEN Num(1, 1) ELSE Zero
              /\ n >= 1 => IsNaN(stock_data.Target[n])
    /\ InMain({"filtered", "done"}) =>
          Len(cached_history) \notin Rows(features)

C4_Recommendation ==
    /\ pc # "error"
    /\ InMain({"recommended", "indicators", "target", "filtered", "done"}) =>
          LET pe == company_info.PE_Ratio
              given == <<recommendation, description>>
          IN  IF pe = NA THEN given = <<"Hold", "Fairly Valued">>
              ELSE IF pe.n < 15 * pe.d THEN given = <<"Buy", "Undervalued">>
              ELSE IF pe.n > 25 * pe.d THEN given = <<"Sell", "Overvalued">>
              ELSE given = <<"Hold", "Fairly Valued">>

C4_Witness ==
    /\ InMain({"recommended"})
    /\ company_info.PE_Ratio = NA
    /\ recommendation = "Hold"
    /\ description = "Fairly Valued"

\* C5: Crossover signal.  With flag = 1 where short MA > long MA and 0
\* otherwise, the signal at every row after the first is +1 exactly when
\* the flag goes 0 to 1, -1 exactly when it goes 1 to 0 and 0 otherwise;
\* the signal of the first row is undefined.
C5_CrossoverSignal ==
    call.fn = "technical_columns" =>
        LET F(i) == Flag(call.closes, call.period, call.period2, i)
            signal == call.out.Crossover_Signal
        IN  /\ Len(signal) = Len(call.closes)
            /\ \A i \in 1..Len(signal) :
                  /\ call.out.Crossover[i] = Num(F(i), 1)
                  /\ IF i = 1 THEN IsNaN(signal[i])
                     ELSE /\ signal[i] = Num(1, 1) <=> (F(i - 1) = 0 /\ F(i) = 1)
                          /\ signal[i] = Num(-1, 1) <=> (F(i - 1) = 1 /\ F(i) = 0)
                          /\ signal[i] = Zero <=> F(i - 1) = F(i)

C5_Witness ==
    /\ call.fn = "technical_columns"
    /\ \E i, j \in 2..Len(call.closes) :
          /\ call.out.Crossover_Signal[i] = Num(1, 1)
          /\ call.out.Crossover_Signal[j] = Num(-1, 1)

\* C6: RSI range and saturation.  Every defined RSI value lies in [0,100];
\* where the window holds no falling day and at least one rising day (mean
\* loss 0, mean gain > 0) the RSI is defined and equals 100.
C6_RsiRange ==
    call.fn = "calculate_rsi" =>
        \A i \in 1..Len(call.closes) :
            LET v == call.out[i]
                changes == WindowChanges(call.closes, call.period, i)
            IN  /\ ~IsNaN(v) =>
                      /\ v.k \in {"num", "-0"}
                      /\ 0 <= v.n
                      /\ v.n <= 100 * v.d
                /\ ( /\ i >= call.period
                     /\ \A c \in changes : c >= 0
                     /\ \E c \in changes : c > 0 ) => v = Num(100, 1)

\* A window with rising days only, next to one with a value strictly
\* between 0 and 100.
C6_Witness ==
    /\ call.fn = "calculate_rsi"
    /\ call.period >= 2
    /\ \E i, j \in call.period..Len(call.closes) :
          /\ call.out[i] = Num(100, 1)
          /\ \A c \in WindowChanges(call.closes, call.period, i) : c >= 0
          /\ call.out[j].k = "num"
          /\ 0 < call.out[j].n
          /\ call.out[j].n < 100 * call.out[j].d

\* C7: Simple moving average.  calculate_sma returns a column as long as
\* the series, undefined before row period-1 and equal to the arithmetic
\* mean of the trailing period closes from there on; the short and the long
\* average of the technical analysis are each such a column for their own
\* window, whichever of the two windows is longer.
C7_SimpleMovingAverage ==
    /\ call.fn = "calculate_sma" =>
          IsTrailingMean(call.out, call.closes, call.period)
    /\ call.fn = "technical_columns" =>
          /\ IsTrailingMean(call.out.SMA_Short, call.closes, call.period)
          /\ IsTrailingMean(call.out.SMA_Long, call.closes, call.period2)

C7_Witness ==
    /\ call.fn = "calculate_sma"
    /\ call.closes = <<1, 2, 3, 3>>
    /\ call.period = 3
    /\ call.out = <<NaN, NaN, Num(2, 1), Num(8, 3)>>

\* C8: Render pipeline.  A finished render has computed the indicators,
\* derived the recommendation and made the feature/label pass once each
\* and, when at least 5 complete rows remain, has performed one train/test
\* split followed by exactly one model fit.
C8_RenderPipeline ==
    InMain({"done"}) =>
        LET At(step) == {e \in 1..Len(log) : log[e] = step}
            Once(step) == Cardinality(At(step)) = 1
            Before(a, b) == \A x \in At(a), y \in At(b) : x < y
        IN  /\ Once("indicators")
            /\ Once("recommendation")
            /\ Once("target")
            /\ Once("dropna")
            /\ Before("indicators", "target")
            /\ Before("target", "dropna")
            /\ Len(features.index) >= 5 =>
                  /\ Once("train_test_split")
                  /\ Once("train_model")
                  /\ Before("dropna", "train_test_split")
                  /\ Before("train_test_split", "train_model")

\* C9: Crossover flag during warm-up.  Wherever the short or the long
\* average is undefined the crossover flag is 0, not undefined; so when the
\* short average is above the long one at the first row where both are
\* defined, the crossover signal there is +1.
C9_WarmUpFlag ==
    InMain({"indicators", "target"}) =>
        LET n == Len(stock_data.index)
            Both(i) == /\ ~IsNaN(stock_data.SMA_Short[i])
                       /\ ~IsNaN(stock_data.SMA_Long[i])
        IN  \A i \in 1..n :
                /\ ~Both(i) => stock_data.Crossover[i] = Zero
                /\ ( /\ Both(i)
                     /\ \A j \in 1..(i - 1) : ~Both(j)
                     /\ ShortAboveLong(cached_history, short_ma_days,
                                       long_ma_days, i) )
                     => stock_data.Crossover_Signal[i] = Num(1, 1)

C9_Witness ==
    /\ InMain({"indicators"})
    /\ \E i \in 2..Len(stock_data.index) :
          /\ \A j \in 1..(i - 1) : IsNaN(stock_data.SMA_Long[j])
          /\ ShortAboveLong(cached_history, short_ma_days, long_ma_days, i)
          /\ stock_data.Crossover[i - 1] = Zero
          /\ stock_data.Crossover_Signal[i] = Num(1, 1)

\* C10: RSI on a flat window.  From row period-1 on, the RSI of a row
\* whose window holds no price change is undefined, and row filtering
\* keeps no such row; the first row's missing change counts as no gain and
\* no loss, so the RSI is undefined before row period-1 and defined at
\* every later row whose window holds a change, row period-1 included.
C10_FlatWindowRsi ==
    /\ InMain({"indicators", "target"}) =>
          \A i \in 1..Len(cached_history) :
              IsNaN(stock_data.RSI[i])
                <=> \/ i < 20
                    \/ WindowChanges(cached_history, 20, i) \subseteq {0}
    /\ InMain({"filtered", "done"}) =>
          \A i \in 20..Len(cached_history) :
              WindowChanges(cached_history, 20, i) \subseteq {0}
                => i \notin Rows(features)

\* A flat-window row with both averages defined was dropped while other
\* rows were kept.
C10_Witness ==
    /\ InMain({"filtered"})
    /\ Len(features.index) >= 1
    /\ \E i \in 20..Len(cached_history) :
          /\ i >= short_ma_days
          /\ i >= long_ma_days
          /\ WindowChanges(cached_history, 20, i) \subseteq {0}
          /\ i \notin Rows(features)

====
